---- MODULE Spec2Model ----
(***************************************************************************)
(* TradeGenie (src/main.py): the per-user conversation flow, the shared    *)
(* session store user_conversation_data, the periodic clean-up job and the *)
(* analysis orchestration, as a state machine.                             *)
(*                                                                         *)
(* A Python dict is a function whose DOMAIN is the set of keys present, so *)
(* a missing key (KeyError, `in`, .get) is a question about the DOMAIN.    *)
(* A handler that contains an await the store is read or written after is  *)
(* split at that await; the clean-up job and the clock may run in between. *)
(* Text is a sequence of one-character strings; a float is an exact number *)
(* of hundredths.                                                          *)
(***************************************************************************)
EXTENDS Integers, Sequences, FiniteSets, TLC

\* ------------------------------------------------------------------ bounds
MaxTicks == 2
TickSeconds == 3600

\* ------------------------------------------------------- program constants
USER_DATA_CLEANUP_INTERVAL_SECONDS == 3600
MAX_IMAGE_SIZE_MB == 2
MAX_IMAGE_SIZE_BYTES == MAX_IMAGE_SIZE_MB * 1024 * 1024

GET_TRADE_PARAMS == 0
WAITING_H4_IMAGE == 1
WAITING_H1_IMAGE == 2
WAITING_M15_IMAGE == 3
\* ConversationHandler.END: the user has no conversation in progress.
END == -1

\* Application.builder()...build() sets no concurrent_updates: an update is
\* handled only when the handling of the previous one has returned.
ConcurrentUpdates == 1

Users == {1, 2}
ConvStates == {END, GET_TRADE_PARAMS, WAITING_H4_IMAGE, WAITING_H1_IMAGE,
               WAITING_M15_IMAGE}

\* -------------------------------------------------------------------- text
XAUUSD == <<"X", "A", "U", "U", "S", "D">>
EURUSD == <<"E", "U", "R", "U", "S", "D">>
SWING == <<"S", "W", "I", "N", "G">>
AMD == <<"A", "M", "D">>
SUPPORTED_ASSETS == {XAUUSD, EURUSD}
SUPPORTED_MODULES == {SWING, AMD}

LowerLetters ==
    <<"a", "b", "c", "d", "e", "f", "g", "h", "i", "j", "k", "l", "m",
      "n", "o", "p", "q", "r", "s", "t", "u", "v", "w", "x", "y", "z">>
UpperLetters ==
    <<"A", "B", "C", "D", "E", "F", "G", "H", "I", "J", "K", "L", "M",
      "N", "O", "P", "Q", "R", "S", "T", "U", "V", "W", "X", "Y", "Z">>
DigitChars == <<"0", "1", "2", "3", "4", "5", "6", "7", "8", "9">>

Range(s) == {s[i] : i \in DOMAIN s}
IsAlpha(c) == c \in Range(LowerLetters) \cup Range(UpperLetters)
IsDigit(c) == c \in Range(DigitChars)
\* the regex classes [A-Za-z0-9], [A-Za-z] and [\d,\.]
IsAlnum(c) == IsAlpha(c) \/ IsDigit(c)
IsCapitalChar(c) == IsDigit(c) \/ c = "," \/ c = "."

\* str.upper(), one character
UpperChar(c) ==
    IF c \in Range(LowerLetters)
    THEN UpperLetters[CHOOSE i \in DOMAIN LowerLetters : LowerLetters[i] = c]
    ELSE c
\* Mutant: the words are stored as typed.
Upper_identity(s) == s

\* str.upper()
Upper(s) == [i \in DOMAIN s |-> UpperChar(s[i])]
\* str.replace(',', '.')
ReplaceComma(s) == [i \in DOMAIN s |-> IF s[i] = "," THEN "." ELSE s[i]]

DigitValue(c) == (CHOOSE i \in DOMAIN DigitChars : DigitChars[i] = c) - 1

\* The longest prefix of s made of characters of the class [\d,\.]: what the
\* greedy third group of the regex captures (the pattern is not anchored at
\* its end).
CapitalPrefixLen(s) ==
    IF \A i \in DOMAIN s : IsCapitalChar(s[i])
    THEN Len(s)
    ELSE (CHOOSE i \in DOMAIN s :
            /\ ~IsCapitalChar(s[i])
            /\ \A j \in 1 .. (i - 1) : IsCapitalChar(s[j])) - 1

\* re.match(r'/trade\s+([A-Za-z0-9]+)\s+([A-Za-z]+)\s+([\d,\.]+)', text), on
\* the whitespace-separated words that follow "/trade": NoMatch, or the three
\* groups.
NoMatch == <<>>
TradeRegex(args) ==
    IF /\ Len(args) >= 3
       /\ Len(args[1]) >= 1
       /\ \A i \in DOMAIN args[1] : IsAlnum(args[1][i])
       /\ Len(args[2]) >= 1
       /\ \A i \in DOMAIN args[2] : IsAlpha(args[2][i])
       /\ CapitalPrefixLen(args[3]) >= 1
    THEN <<args[1], args[2], SubSeq(args[3], 1, CapitalPrefixLen(args[3]))>>
    ELSE NoMatch

\* float(s) for s over digits and '.': ValueError unless s holds at most one
\* '.' and at least one digit. The value is in hundredths (two decimals kept).
ValueError == -1
Dots(s) == {i \in DOMAIN s : s[i] = "."}
RECURSIVE DigitsValue(_)
DigitsValue(s) ==
    IF s = <<>> THEN 0
    ELSE 10 * DigitsValue(SubSeq(s, 1, Len(s) - 1)) + DigitValue(s[Len(s)])
Float(s) ==
    IF \/ Cardinality(Dots(s)) > 1
       \/ Cardinality(Dots(s)) = Len(s)
       \/ \E i \in DOMAIN s : ~(IsDigit(s[i]) \/ s[i] = ".")
    THEN ValueError
    ELSE IF Dots(s) = {}
    THEN 100 * DigitsValue(s)
    ELSE LET d == CHOOSE i \in Dots(s) : TRUE
             whole == SubSeq(s, 1, d - 1)
             frac == SubSeq(s, d + 1, Len(s))
             f1 == IF Len(frac) >= 1 THEN DigitValue(frac[1]) ELSE 0
             f2 == IF Len(frac) >= 2 THEN DigitValue(frac[2]) ELSE 0
         IN 100 * DigitsValue(whole) + 10 * f1 + f2

\* ------------------------------------------------------------------- dicts
\* d[k] = v
DictSet(d, k, v) == [x \in DOMAIN d \cup {k} |-> IF x = k THEN v ELSE d[x]]
\* del d[k]
DictDel(d, k) == [x \in DOMAIN d \ {k} |-> d[x]]
EmptyDict == <<>>

\* Optional value: {} for None (dict.get of a missing key), {v} for v.
Get(d, k) == IF k \in DOMAIN d THEN {d[k]} ELSE {}
\* Truth value of an optional bytes payload; bytes are modelled by their
\* length, and None and b"" are false.
Truthy(opt) == opt # {} /\ \A x \in opt : x # 0
\* Mutant: the images are sent without the all(...) test.
All_unchecked(images) == TRUE

\* all(images)
All(images) == \A i \in DOMAIN images : Truthy(images[i])

\* ------------------------------------------------------------------- state
VARIABLES
    user_conversation_data, \* the session store: user_id -> dict
    conv,                   \* ConversationHandler's state per user
    now,                    \* time.time()
    tasks,                  \* handlers suspended at an await
    out                     \* what the handler that ran last sent and returned

vars == <<user_conversation_data, conv, now, tasks, out>>

Reply(kind, arg) == [kind |-> kind, arg |-> arg]
Outcome(u, h, replies, calls, raised, ret) ==
    [user |-> u, handler |-> h, replies |-> replies, calls |-> calls,
     raised |-> raised, returned |-> ret]
NoException == ""

\* Mutant: the application built with concurrent_updates, a second update
\* handled while the handler of the first is suspended.
Idle_concurrent_updates == Cardinality(tasks) < ConcurrentUpdates + 1

\* The application takes the next update when the previous one is handled.
Idle == Cardinality(tasks) < ConcurrentUpdates

\* ConversationHandler stores the state a handler returns.
SetConv(u, s) == [conv EXCEPT ![u] = s]

Init ==
    /\ user_conversation_data = EmptyDict
    /\ conv = [u \in Users |-> END]
    /\ now = 0
    /\ tasks = {}
    /\ out = Outcome(0, "none", <<>>, <<>>, NoException, {})

\* ----------------------------------------------------- clean-up and clock
\* Mutant: a session idle for exactly the interval is dropped too.
cleanup_old_user_data_at_threshold(data, t) ==
    [u \in {v \in DOMAIN data :
              t - data[v]["timestamp"] < USER_DATA_CLEANUP_INTERVAL_SECONDS}
       |-> data[u]]

\* utils.data_management.cleanup_old_user_data: drops every session idle for
\* longer than USER_DATA_CLEANUP_INTERVAL_SECONDS.
cleanup_old_user_data(data, t) ==
    [u \in {v \in DOMAIN data :
              t - data[v]["timestamp"] <= USER_DATA_CLEANUP_INTERVAL_SECONDS}
       |-> data[u]]

\* Mutant: the wrapper's finally empties the store.
clear_user_data_on_exit_clears_store(data, u) ==
    IF u \in DOMAIN data THEN EmptyDict ELSE data

\* Mutant: the wrapper's finally deletes nothing.
clear_user_data_on_exit_noop(data, u) == data

\* The finally clause of clear_user_data_on_exit.wrapper.
clear_user_data_on_exit(data, u) ==
    IF u \in DOMAIN data THEN DictDel(data, u) ELSE data

\* Mutant: the clean-up job is not scheduled.
scheduled_cleanup_never_runs == FALSE /\ UNCHANGED vars

\* The job queue runs scheduled_cleanup, at any await of a handler too.
scheduled_cleanup ==
    /\ user_conversation_data' =
           cleanup_old_user_data(user_conversation_data, now)
    /\ UNCHANGED <<conv, now, tasks, out>>

Tick ==
    /\ now < MaxTicks * TickSeconds
    /\ now' = now + TickSeconds
    /\ UNCHANGED <<user_conversation_data, conv, tasks, out>>

\* ------------------------------------------------------- plain commands
\* Mutant: the sessions are counted before the store is cleaned.
status_command_counts_first(u, raises) ==
    /\ Idle
    /\ user_conversation_data' =
           cleanup_old_user_data(user_conversation_data, now)
    /\ out' = IF raises
              THEN Outcome(u, "status_command", <<>>, <<>>, "NameError", {})
              ELSE Outcome(u, "status_command",
                           <<Reply("status",
                                   <<Cardinality(DOMAIN user_conversation_data)>>)>>,
                           <<>>, NoException, {})
    /\ UNCHANGED <<conv, now, tasks>>

\* status_command: cleans the store, then reports the number of sessions.
\* The message is built from OPENAI_API_KEY and DEEPSEEK_API_KEY, names that
\* main.py never imports: `raises` is the NameError of that lookup.
status_command(u, raises) ==
    /\ Idle
    /\ LET data == cleanup_old_user_data(user_conversation_data, now)
       IN /\ user_conversation_data' = data
          /\ out' = IF raises
                    THEN Outcome(u, "status_command", <<>>, <<>>, "NameError", {})
                    ELSE Outcome(u, "status_command",
                                 <<Reply("status", <<Cardinality(DOMAIN data)>>)>>,
                                 <<>>, NoException, {})
    /\ UNCHANGED <<conv, now, tasks>>

\* Mutant: cancel_command without the decorator.
cancel_body_undecorated(u) ==
    /\ UNCHANGED user_conversation_data
    /\ out' = Outcome(u, "cancel_command", <<Reply("cancelled", <<>>)>>,
                      <<>>, NoException, {END})
    /\ UNCHANGED <<now, tasks>>

\* Mutant: the finally deletes without testing that the key is there.
cancel_body_unguarded(u) ==
    /\ user_conversation_data' = DictDel(user_conversation_data, u)
    /\ out' = IF u \in DOMAIN user_conversation_data
              THEN Outcome(u, "cancel_command", <<Reply("cancelled", <<>>)>>,
                           <<>>, NoException, {END})
              ELSE Outcome(u, "cancel_command", <<Reply("cancelled", <<>>)>>,
                           <<>>, "KeyError", {})
    /\ UNCHANGED <<now, tasks>>

\* cancel_command under clear_user_data_on_exit: the reply, return END, and
\* the wrapper's finally.
cancel_body(u) ==
    /\ user_conversation_data' =
           clear_user_data_on_exit(user_conversation_data, u)
    /\ out' = Outcome(u, "cancel_command", <<Reply("cancelled", <<>>)>>,
                      <<>>, NoException, {END})
    /\ UNCHANGED <<now, tasks>>

\* /cancel is registered twice (main, lines 512 and 520). Taken by the
\* application-level CommandHandler, the returned END is not a conversation
\* state change.
cancel_command_global(u) ==
    /\ Idle
    /\ cancel_body(u)
    /\ UNCHANGED conv

\* Taken by the conversation's fallback, which exists while a conversation
\* is in progress, the returned END ends the conversation.
cancel_command_fallback(u) ==
    /\ Idle
    /\ conv[u] # END
    /\ cancel_body(u)
    /\ conv' = SetConv(u, END)

\* An update that no registered handler accepts in the user's state (a text
\* where a photo is awaited, a photo where /trade is awaited, ...): nothing
\* runs and nothing is sent.
unhandled_update(u) ==
    /\ Idle
    /\ out' = Outcome(u, "none", <<>>, <<>>, NoException, {})
    /\ UNCHANGED <<user_conversation_data, conv, now, tasks>>

\* ------------------------------------------------------------ conversation
\* Mutant: the entry command refreshes the timestamp of a session that is
\* already there.
analyze_entry_point_keeps_data(u) ==
    /\ Idle
    /\ user_conversation_data' =
           DictSet(user_conversation_data, u,
                   IF u \in DOMAIN user_conversation_data
                   THEN DictSet(user_conversation_data[u], "timestamp", now)
                   ELSE [timestamp |-> now])
    /\ conv' = SetConv(u, GET_TRADE_PARAMS)
    /\ out' = Outcome(u, "analyze_entry_point", <<Reply("started", <<>>)>>,
                      <<>>, NoException, {GET_TRADE_PARAMS})
    /\ UNCHANGED <<now, tasks>>

\* analyze_entry_point: entry point, and with allow_reentry from any state.
analyze_entry_point(u) ==
    /\ Idle
    /\ user_conversation_data' =
           DictSet(user_conversation_data, u, [timestamp |-> now])
    /\ conv' = SetConv(u, GET_TRADE_PARAMS)
    /\ out' = Outcome(u, "analyze_entry_point", <<Reply("started", <<>>)>>,
                      <<>>, NoException, {GET_TRADE_PARAMS})
    /\ UNCHANGED <<now, tasks>>

\* Mutant: only a negative capital is refused.
NotPositive_strict(capital) == capital < 0

\* `if capital <= 0`
NotPositive(capital) == capital <= 0

\* The parsing and validation of get_trade_parameters: the reply kind of the
\* first check that fails, or "ok" with the three values.
ParseTrade(args) ==
    LET m == TradeRegex(args)
    IN IF m = NoMatch
       THEN [kind |-> "bad_format", arg |-> <<>>]
       ELSE LET asset == Upper(m[1])
                module == Upper(m[2])
                capital_str == ReplaceComma(m[3])
                capital == Float(capital_str)
            IN IF capital = ValueError
               THEN [kind |-> "bad_capital", arg |-> <<>>]
               ELSE IF asset \notin SUPPORTED_ASSETS
               THEN [kind |-> "bad_asset", arg |-> asset]
               ELSE IF module \notin SUPPORTED_MODULES
               THEN [kind |-> "bad_module", arg |-> module]
               ELSE IF NotPositive(capital)
               THEN [kind |-> "capital_not_positive", arg |-> <<>>]
               ELSE [kind |-> "ok", arg |-> <<>>, asset |-> asset,
                     module |-> module, capital |-> capital]

\* The four stores of lines 240-243.
StoreParams(session, p, t) ==
    DictSet(DictSet(DictSet(DictSet(session, "asset", p.asset),
                            "module", p.module),
                    "capital", p.capital),
            "timestamp", t)

\* Mutant: a valid parameter command for a user without a session creates
\* the record it writes to.
get_trade_parameters_creates_session(u, args) ==
    /\ Idle
    /\ conv[u] = GET_TRADE_PARAMS
    /\ LET p == ParseTrade(args)
       IN IF p.kind # "ok"
          THEN /\ out' = Outcome(u, "get_trade_parameters",
                                 <<Reply(p.kind, p.arg)>>, <<>>, NoException,
                                 {GET_TRADE_PARAMS})
               /\ conv' = SetConv(u, GET_TRADE_PARAMS)
               /\ UNCHANGED user_conversation_data
          ELSE /\ user_conversation_data' =
                      DictSet(user_conversation_data, u,
                              StoreParams(IF u \in DOMAIN user_conversation_data
                                          THEN user_conversation_data[u]
                                          ELSE [timestamp |-> now], p, now))
               /\ out' = Outcome(u, "get_trade_parameters",
                                 <<Reply("params_ok", <<>>)>>, <<>>,
                                 NoException, {WAITING_H4_IMAGE})
               /\ conv' = SetConv(u, WAITING_H4_IMAGE)
    /\ UNCHANGED <<now, tasks>>

get_trade_parameters(u, args) ==
    /\ Idle
    /\ conv[u] = GET_TRADE_PARAMS
    /\ LET p == ParseTrade(args)
       IN IF p.kind # "ok"
          THEN /\ out' = Outcome(u, "get_trade_parameters",
                                 <<Reply(p.kind, p.arg)>>, <<>>, NoException,
                                 {GET_TRADE_PARAMS})
               /\ conv' = SetConv(u, GET_TRADE_PARAMS)
               /\ UNCHANGED user_conversation_data
          ELSE IF u \notin DOMAIN user_conversation_data
          THEN \* user_conversation_data[user_id]['asset'] = ... : KeyError
               /\ out' = Outcome(u, "get_trade_parameters", <<>>, <<>>,
                                 "KeyError", {})
               /\ UNCHANGED <<conv, user_conversation_data>>
          ELSE /\ user_conversation_data' =
                      DictSet(user_conversation_data, u,
                              StoreParams(user_conversation_data[u], p, now))
               /\ out' = Outcome(u, "get_trade_parameters",
                                 <<Reply("params_ok", <<>>)>>, <<>>,
                                 NoException, {WAITING_H4_IMAGE})
               /\ conv' = SetConv(u, WAITING_H4_IMAGE)
    /\ UNCHANGED <<now, tasks>>

\* ------------------------------------------------------------ image intake
Task(u, h, pc, size, locals, replies, calls) ==
    [user |-> u, handler |-> h, pc |-> pc, file_size |-> size,
     locals |-> locals, replies |-> replies, calls |-> calls]

\* The handler returns `ret`: the conversation takes that state.
Return(t, replies, ret) ==
    /\ out' = Outcome(t.user, t.handler, replies, t.calls, NoException, {ret})
    /\ conv' = SetConv(t.user, ret)
    /\ tasks' = tasks \ {t}

\* The handler raises: ConversationHandler keeps the state it had.
Raise(t, exception) ==
    /\ out' = Outcome(t.user, t.handler, t.replies, t.calls, exception, {})
    /\ UNCHANGED conv
    /\ tasks' = tasks \ {t}

\* The handler is suspended at an await.
Suspend(t, t2) ==
    /\ tasks' = (tasks \ {t}) \cup {t2}
    /\ out' = Outcome(t2.user, t2.handler, t2.replies, t2.calls, NoException, {})
    /\ UNCHANGED conv

\* An image handler up to `await context.bot.get_file(file_id)`. The photo
\* filter of the state's MessageHandler makes update.message.photo non-empty,
\* so the "send a photo" branch is not taken.
ImageBegin(u, h, state, size) ==
    /\ Idle
    /\ conv[u] = state
    /\ LET t == Task(u, h, "get_file", size, <<>>, <<>>, <<>>)
       IN IF u \notin DOMAIN user_conversation_data
          THEN /\ out' = Outcome(u, h, <<Reply("session_expired", <<>>)>>,
                                 <<>>, NoException, {END})
               /\ conv' = SetConv(u, END)
               /\ UNCHANGED tasks
          ELSE /\ tasks' = tasks \cup {t}
               /\ out' = Outcome(u, h, <<>>, <<>>, NoException, {})
               /\ UNCHANGED conv
    /\ UNCHANGED <<now, user_conversation_data>>

\* Mutant: storing an image replaces the record by one with the image only.
StoreImage_replaces_record(data, u, slot, size, t) ==
    DictSet(data, u, DictSet([timestamp |-> t], slot, size))

\* Mutant: the timestamp written with the image is not the current time.
StoreImage_stale_timestamp(data, u, slot, size, t) ==
    DictSet(data, u, DictSet(DictSet(data[u], slot, size), "timestamp", 0))

\* user_conversation_data[user_id][slot] = image_bytes.getvalue() and the
\* timestamp refresh; the bytes are modelled by their length.
StoreImage(data, u, slot, size, t) ==
    DictSet(data, u, DictSet(DictSet(data[u], slot, size), "timestamp", t))

\* Mutant: the size test is off by one byte.
ImageIntake_off_by_one(t, download) ==
    IF t.file_size > MAX_IMAGE_SIZE_BYTES + 1 THEN "too_big"
    ELSE IF download = "raise" THEN "raise"
    ELSE IF t.user \notin DOMAIN user_conversation_data THEN "KeyError"
    ELSE "stored"

\* What an image handler does once get_file has returned, up to the write
\* of the slot: "too_big", "raise" (download_to_memory fails, or BytesIO,
\* which main.py never imports, is not bound), "KeyError" (the session is
\* gone) or "stored".
ImageIntake(t, download) ==
    IF t.file_size > MAX_IMAGE_SIZE_BYTES THEN "too_big"
    ELSE IF download = "raise" THEN "raise"
    ELSE IF t.user \notin DOMAIN user_conversation_data THEN "KeyError"
    ELSE "stored"

receive_h4_image(u, size) ==
    ImageBegin(u, "receive_h4_image", WAITING_H4_IMAGE, size)

receive_h4_image_resume(t, download) ==
    /\ t \in tasks
    /\ t.handler = "receive_h4_image"
    /\ t.pc = "get_file"
    /\ LET r == ImageIntake(t, download)
       IN CASE r = "too_big" ->
                 /\ Return(t, <<Reply("too_big", <<>>)>>, WAITING_H4_IMAGE)
                 /\ UNCHANGED user_conversation_data
            [] r = "stored" ->
                 /\ user_conversation_data' =
                        StoreImage(user_conversation_data, t.user, "h4_image",
                                   t.file_size, now)
                 /\ Return(t, <<Reply("h4_ok", <<>>)>>, WAITING_H1_IMAGE)
            [] OTHER ->
                 /\ Raise(t, r)
                 /\ UNCHANGED user_conversation_data
    /\ UNCHANGED now

\* ------------------------------------------------------------ reply text
\* A reply text is a sequence of runs [c, off, n]: n characters of class c,
\* "x" an ordinary character, "ws" a whitespace character, "marker" the
\* characters off+1 .. off+n of the planning-section marker, "suite" those
\* of the continuation note.
PlanMarkerLen == 42
SuiteLen == 34
TitleLen == 46
CapitalLineLen == 38
AnalysisHeadingLen == 43
WarningLen == 290
MessageLimit == 4000
SplitPointLimit == 3500

Run(c, n) == <<[c |-> c, off |-> 0, n |-> n]>>
X(n) == Run("x", n)
NL == Run("ws", 1)
PlanMarker == Run("marker", PlanMarkerLen)

RECURSIVE TextLen(_)
\* len(text)
TextLen(s) == IF s = <<>> THEN 0 ELSE Head(s).n + TextLen(Tail(s))

RECURSIVE Take(_, _)
\* text[:k]
Take(s, k) ==
    IF k <= 0 \/ s = <<>> THEN <<>>
    ELSE IF Head(s).n <= k THEN <<Head(s)>> \o Take(Tail(s), k - Head(s).n)
    ELSE <<[Head(s) EXCEPT !.n = k]>>

RECURSIVE Drop(_, _)
\* text[k:]
Drop(s, k) ==
    IF k <= 0 \/ s = <<>> THEN s
    ELSE IF Head(s).n <= k THEN Drop(Tail(s), k - Head(s).n)
    ELSE <<[Head(s) EXCEPT !.n = @ - k,
                           !.off = IF Head(s).c \in {"x", "ws"} THEN 0
                                   ELSE @ + k]>> \o Tail(s)

RECURSIVE Norm(_)
\* The same text with adjacent runs of one class joined: two texts are the
\* same string exactly when their normal forms are equal.
Norm(s) ==
    IF Len(s) < 2 THEN s
    ELSE LET a == Head(s)
             r == Norm(Tail(s))
             b == Head(r)
         IN IF a.c = b.c /\ (a.c \in {"x", "ws"} \/ a.off + a.n = b.off)
            THEN <<[a EXCEPT !.n = a.n + b.n]>> \o Tail(r)
            ELSE <<a>> \o r

\* a + b
Concat(a, b) == Norm(a \o b)

RECURSIVE Find(_)
\* text.find("--- **Plan de Trading (par DeepSeek)** ---"): the index of the
\* first whole marker, -1 when there is none.
Find(s) ==
    IF s = <<>> THEN -1
    ELSE IF Head(s) = PlanMarker[1] THEN 0
    ELSE LET r == Find(Tail(s))
         IN IF r = -1 THEN -1 ELSE Head(s).n + r

RECURSIVE LStrip(_)
LStrip(s) ==
    IF s # <<>> /\ Head(s).c = "ws" THEN LStrip(Tail(s)) ELSE s

RECURSIVE RStrip(_)
RStrip(s) ==
    IF s # <<>> /\ s[Len(s)].c = "ws" THEN RStrip(SubSeq(s, 1, Len(s) - 1))
    ELSE s

\* text.strip()
Strip(s) == RStrip(LStrip(s))

RECURSIVE NumDigits(_)
NumDigits(n) == IF n < 10 THEN 1 ELSE 1 + NumDigits(n \div 10)

\* len(f"{capital:,.2f}"): the digits of the integer part, a comma for every
\* three of them, the point and two decimals. The capital is in hundredths.
CapitalFormatLen(capital) ==
    LET d == NumDigits(capital \div 100)
    IN d + (d - 1) \div 3 + 3

\* "\n".join(final_message_parts)
FinalMessage(module, capital, asset, analysis_text, trading_plan) ==
    Norm(X(TitleLen + Len(module)) \o NL
         \o X(CapitalLineLen + CapitalFormatLen(capital) + Len(asset)) \o NL
         \o NL \o X(AnalysisHeadingLen) \o NL \o NL
         \o analysis_text \o NL
         \o NL \o PlanMarker \o NL \o NL
         \o trading_plan \o NL
         \o NL \o X(WarningLen))

\* "\n\n(Suite de l'analyse ci-dessous...)"
Continuation == NL \o NL \o Run("suite", SuiteLen)

RECURSIVE FixedParts(_)
\* [final_message[i:i+4000] for i in range(0, len(final_message), 4000)]
FixedParts(s) ==
    IF s = <<>> THEN <<>>
    ELSE <<Take(s, MessageLimit)>> \o FixedParts(Drop(s, MessageLimit))

\* Mutant: a marker at index 3500 is still taken as the split point.
Chunks_split_point_inclusive(final_message) ==
    IF TextLen(final_message) > MessageLimit
    THEN LET split_point == Find(final_message)
         IN IF split_point # -1 /\ split_point <= SplitPointLimit
            THEN <<Concat(Strip(Take(final_message, split_point)), Continuation),
                   Strip(Drop(final_message, split_point))>>
            ELSE FixedParts(final_message)
    ELSE <<final_message>>

\* Mutant: the second part starts one character after the split point.
Chunks_off_by_one(final_message) ==
    IF TextLen(final_message) > MessageLimit
    THEN LET split_point == Find(final_message)
         IN IF split_point # -1 /\ split_point < SplitPointLimit
            THEN <<Concat(Strip(Take(final_message, split_point)), Continuation),
                   Strip(Drop(final_message, split_point + 1))>>
            ELSE FixedParts(final_message)
    ELSE <<final_message>>

\* The texts passed to reply_text for the final message, in send order.
Chunks(final_message) ==
    IF TextLen(final_message) > MessageLimit
    THEN LET split_point == Find(final_message)
         IN IF split_point # -1 /\ split_point < SplitPointLimit
            THEN <<Concat(Strip(Take(final_message, split_point)), Continuation),
                   Strip(Drop(final_message, split_point))>>
            ELSE FixedParts(final_message)
    ELSE <<final_message>>

\* The final replies of start_llm_analysis for the task's session values.
FinalReplies(t, deepseek_trading_plan) ==
    LET parts == Chunks(FinalMessage(t.locals.module, t.locals.capital,
                                     t.locals.asset,
                                     t.locals.chatgpt_analysis_text,
                                     deepseek_trading_plan))
    IN [i \in DOMAIN parts |-> Reply("final", parts[i])]

\* ---------------------------------------------------------------- analysis
\* Mutant: the AMD analysis is sent the H1 image in place of M15.
AnalysisStart_amd_sends_h1(data, u, visionPrompt) ==
    IF u \notin DOMAIN data \/ DOMAIN data[u] = {}
    THEN [kind |-> "session_expired"]
    ELSE LET user_data == data[u]
         IN IF {"module", "capital", "asset"} \ DOMAIN user_data # {}
            THEN [kind |-> "KeyError"]
            ELSE LET module == user_data["module"]
                     h4_image == Get(user_data, "h4_image")
                     h1_image == Get(user_data, "h1_image")
                     m15_image == Get(user_data, "m15_image")
                     images == IF module = SWING THEN <<h4_image, h1_image>>
                               ELSE IF module = AMD THEN <<h4_image, h1_image>>
                               ELSE <<>>
                 IN IF ~(module \in {SWING, AMD} /\ visionPrompt)
                    THEN [kind |-> "no_vision_prompt"]
                    ELSE IF ~All(images)
                    THEN [kind |-> "images_missing"]
                    ELSE [kind |-> "call_vision",
                          locals |-> [module |-> module,
                                      asset |-> user_data["asset"],
                                      capital |-> user_data["capital"],
                                      chatgpt_analysis_text |-> <<>>],
                          images |-> images]

\* start_llm_analysis up to the call of the vision provider. `data` is the
\* store at the call; the result says how this part ends.
AnalysisStart(data, u, visionPrompt) ==
    IF u \notin DOMAIN data \/ DOMAIN data[u] = {}
    THEN [kind |-> "session_expired"]
    ELSE LET user_data == data[u]
         IN IF {"module", "capital", "asset"} \ DOMAIN user_data # {}
            THEN [kind |-> "KeyError"]
            ELSE LET module == user_data["module"]
                     h4_image == Get(user_data, "h4_image")
                     h1_image == Get(user_data, "h1_image")
                     m15_image == Get(user_data, "m15_image")
                     images == IF module = SWING THEN <<h4_image, h1_image>>
                               ELSE IF module = AMD THEN <<h4_image, m15_image>>
                               ELSE <<>>
                 IN IF ~(module \in {SWING, AMD} /\ visionPrompt)
                    THEN [kind |-> "no_vision_prompt"]
                    ELSE IF ~All(images)
                    THEN [kind |-> "images_missing"]
                    ELSE [kind |-> "call_vision",
                          locals |-> [module |-> module,
                                      asset |-> user_data["asset"],
                                      capital |-> user_data["capital"],
                                      chatgpt_analysis_text |-> <<>>],
                          images |-> images]

\* The call `await start_llm_analysis(update, context)` from an image
\* handler, under the wrapper of start_llm_analysis: it ends at once, with
\* the wrapper's finally, or is suspended in the vision provider's call.
Dispatch(t, data, visionPrompt) ==
    LET a == AnalysisStart(data, t.user, visionPrompt)
        started == <<Reply("analysis_started", <<>>)>>
    IN CASE a.kind = "call_vision" ->
              /\ Suspend(t, Task(t.user, t.handler, "vision", t.file_size,
                                 a.locals, started,
                                 <<[provider |-> "vision", images |-> a.images]>>))
              /\ user_conversation_data' = data
         [] a.kind = "KeyError" ->
              /\ Raise(t, "KeyError")
              /\ user_conversation_data' = clear_user_data_on_exit(data, t.user)
         [] a.kind = "session_expired" ->
              /\ Return(t, <<Reply("session_expired", <<>>)>>, END)
              /\ user_conversation_data' = clear_user_data_on_exit(data, t.user)
         [] OTHER ->
              /\ Return(t, started \o <<Reply(a.kind, <<>>)>>, END)
              /\ user_conversation_data' = clear_user_data_on_exit(data, t.user)

\* Mutant: the test for the module that needs M15 never succeeds.
NeedsM15_never(module) == FALSE

\* Mutant: every module is asked for the M15 image.
NeedsM15_always(module) == module \in {AMD, SWING}

\* `if user_conversation_data[user_id]['module'] == "AMD"`
NeedsM15(module) == module = AMD

receive_h1_image(u, size) ==
    ImageBegin(u, "receive_h1_image", WAITING_H1_IMAGE, size)

receive_h1_image_resume(t, download, visionPrompt) ==
    /\ t \in tasks
    /\ t.handler = "receive_h1_image"
    /\ t.pc = "get_file"
    /\ LET r == ImageIntake(t, download)
           data == StoreImage(user_conversation_data, t.user, "h1_image",
                              t.file_size, now)
       IN CASE r = "too_big" ->
                 /\ Return(t, <<Reply("too_big", <<>>)>>, WAITING_H1_IMAGE)
                 /\ UNCHANGED user_conversation_data
            [] r = "stored" /\ "module" \notin DOMAIN data[t.user] ->
                 /\ Raise(t, "KeyError")
                 /\ user_conversation_data' = data
            [] r = "stored" /\ "module" \in DOMAIN data[t.user]
                            /\ NeedsM15(data[t.user]["module"]) ->
                 /\ Return(t, <<Reply("h1_ok_send_m15", <<>>)>>, WAITING_M15_IMAGE)
                 /\ user_conversation_data' = data
            [] r = "stored" /\ "module" \in DOMAIN data[t.user]
                            /\ ~NeedsM15(data[t.user]["module"]) ->
                 Dispatch(t, data, visionPrompt)
            [] OTHER ->
                 /\ Raise(t, r)
                 /\ UNCHANGED user_conversation_data
    /\ UNCHANGED now

\* receive_m15_image runs under clear_user_data_on_exit: every exit of the
\* handler, the early returns too, runs the wrapper's finally.
receive_m15_image(u, size) ==
    /\ Idle
    /\ conv[u] = WAITING_M15_IMAGE
    /\ IF u \notin DOMAIN user_conversation_data
       THEN /\ out' = Outcome(u, "receive_m15_image",
                              <<Reply("session_expired", <<>>)>>, <<>>,
                              NoException, {END})
            /\ conv' = SetConv(u, END)
            /\ UNCHANGED tasks
       ELSE /\ tasks' = tasks \cup {Task(u, "receive_m15_image", "get_file",
                                         size, <<>>, <<>>, <<>>)}
            /\ out' = Outcome(u, "receive_m15_image", <<>>, <<>>, NoException, {})
            /\ UNCHANGED conv
    /\ UNCHANGED <<now, user_conversation_data>>

receive_m15_image_resume(t, download, visionPrompt) ==
    /\ t \in tasks
    /\ t.handler = "receive_m15_image"
    /\ t.pc = "get_file"
    /\ LET r == ImageIntake(t, download)
       IN CASE r = "too_big" ->
                 /\ Return(t, <<Reply("too_big", <<>>)>>, WAITING_M15_IMAGE)
                 /\ user_conversation_data' =
                        clear_user_data_on_exit(user_conversation_data, t.user)
            [] r = "stored" ->
                 Dispatch(t, StoreImage(user_conversation_data, t.user,
                                        "m15_image", t.file_size, now),
                          visionPrompt)
            [] OTHER ->
                 /\ Raise(t, r)
                 /\ user_conversation_data' =
                        clear_user_data_on_exit(user_conversation_data, t.user)
    /\ UNCHANGED now

\* Mutant: the orchestrator refreshes the session's timestamp in the store
\* when the vision provider has answered.
vision_return_writes_back(t, result, text, planningPrompt) ==
    /\ t \in tasks
    /\ t.pc = "vision"
    /\ CASE result = "raise" ->
              /\ Raise(t, "Exception")
         [] result = "failure" ->
              /\ Return(t, t.replies \o <<Reply("vision_error", <<>>)>>, END)
         [] result = "ok" /\ ~planningPrompt ->
              /\ Return(t, t.replies \o <<Reply("no_planning_prompt", <<>>)>>, END)
         [] OTHER ->
              /\ Suspend(t, [t EXCEPT !.pc = "planning",
                                      !.locals.chatgpt_analysis_text = text,
                                      !.calls = @ \o <<[provider |-> "planning",
                                                        images |-> <<>>]>>])
    /\ user_conversation_data' =
           IF result = "ok" /\ planningPrompt
           THEN DictSet(user_conversation_data, t.user, [timestamp |-> now])
           ELSE clear_user_data_on_exit(user_conversation_data, t.user)
    /\ UNCHANGED now

\* Mutant: a failure-marked vision result is answered by a second call.
vision_return_retries(t, result, text, planningPrompt) ==
    /\ t \in tasks
    /\ t.pc = "vision"
    /\ CASE result = "raise" ->
              /\ Raise(t, "Exception")
         [] result = "failure" /\ Len(t.calls) = 1 ->
              /\ Suspend(t, [t EXCEPT !.calls = @ \o <<t.calls[1]>>])
         [] result = "failure" /\ Len(t.calls) # 1 ->
              /\ Return(t, t.replies \o <<Reply("vision_error", <<>>)>>, END)
         [] result = "ok" /\ ~planningPrompt ->
              /\ Return(t, t.replies \o <<Reply("no_planning_prompt", <<>>)>>, END)
         [] OTHER ->
              /\ Suspend(t, [t EXCEPT !.pc = "planning",
                                      !.locals.chatgpt_analysis_text = text,
                                      !.calls = @ \o <<[provider |-> "planning",
                                                        images |-> <<>>]>>])
    /\ user_conversation_data' =
           IF (result = "ok" /\ planningPrompt)
              \/ (result = "failure" /\ Len(t.calls) = 1)
           THEN user_conversation_data
           ELSE clear_user_data_on_exit(user_conversation_data, t.user)
    /\ UNCHANGED now

\* Mutant: the failure marker of the vision result is not tested.
vision_return_ignores_failure(t, result, text, planningPrompt) ==
    /\ t \in tasks
    /\ t.pc = "vision"
    /\ CASE result = "raise" ->
              /\ Raise(t, "Exception")
         [] result # "raise" /\ ~planningPrompt ->
              /\ Return(t, t.replies \o <<Reply("no_planning_prompt", <<>>)>>, END)
         [] OTHER ->
              /\ Suspend(t, [t EXCEPT !.pc = "planning",
                                      !.locals.chatgpt_analysis_text = text,
                                      !.calls = @ \o <<[provider |-> "planning",
                                                        images |-> <<>>]>>])
    /\ user_conversation_data' =
           IF result # "raise" /\ planningPrompt
           THEN user_conversation_data
           ELSE clear_user_data_on_exit(user_conversation_data, t.user)
    /\ UNCHANGED now

\* get_chatgpt_vision_analysis has returned: `result` is "ok", "failure" (a
\* text that starts with the failure marker) or "raise" (an exception between
\* this await and the next). On "ok" the planning prompt is loaded and the
\* planning provider called.
vision_return(t, result, text, planningPrompt) ==
    /\ t \in tasks
    /\ t.pc = "vision"
    /\ CASE result = "raise" ->
              /\ Raise(t, "Exception")
         [] result = "failure" ->
              /\ Return(t, t.replies \o <<Reply("vision_error", <<>>)>>, END)
         [] result = "ok" /\ ~planningPrompt ->
              /\ Return(t, t.replies \o <<Reply("no_planning_prompt", <<>>)>>, END)
         [] OTHER ->
              /\ Suspend(t, [t EXCEPT !.pc = "planning",
                                      !.locals.chatgpt_analysis_text = text,
                                      !.calls = @ \o <<[provider |-> "planning",
                                                        images |-> <<>>]>>])
    /\ user_conversation_data' =
           IF result = "ok" /\ planningPrompt
           THEN user_conversation_data
           ELSE clear_user_data_on_exit(user_conversation_data, t.user)
    /\ UNCHANGED now

\* Mutant: the session is deleted on a return, not in a finally.
planning_return_no_finally(t, result, deepseek_trading_plan) ==
    /\ t \in tasks
    /\ t.pc = "planning"
    /\ CASE result = "raise" ->
              /\ Raise(t, "Exception")
              /\ UNCHANGED user_conversation_data
         [] result = "failure" ->
              /\ Return(t, t.replies \o <<Reply("planning_error", <<>>)>>, END)
              /\ user_conversation_data' =
                     clear_user_data_on_exit(user_conversation_data, t.user)
         [] OTHER ->
              /\ Return(t, t.replies \o FinalReplies(t, deepseek_trading_plan), END)
              /\ user_conversation_data' =
                     clear_user_data_on_exit(user_conversation_data, t.user)
    /\ UNCHANGED now

\* Mutant: the failure marker of the plan is not tested.
planning_return_ignores_failure(t, result, deepseek_trading_plan) ==
    /\ t \in tasks
    /\ t.pc = "planning"
    /\ CASE result = "raise" ->
              /\ Raise(t, "Exception")
         [] OTHER ->
              /\ Return(t, t.replies \o FinalReplies(t, deepseek_trading_plan), END)
    /\ user_conversation_data' =
           clear_user_data_on_exit(user_conversation_data, t.user)
    /\ UNCHANGED now

\* get_deepseek_chat_completion has returned; on "ok" the final message is
\* assembled and sent.
planning_return(t, result, deepseek_trading_plan) ==
    /\ t \in tasks
    /\ t.pc = "planning"
    /\ CASE result = "raise" ->
              /\ Raise(t, "Exception")
         [] result = "failure" ->
              /\ Return(t, t.replies \o <<Reply("planning_error", <<>>)>>, END)
         [] OTHER ->
              /\ Return(t, t.replies \o FinalReplies(t, deepseek_trading_plan), END)
    /\ user_conversation_data' =
           clear_user_data_on_exit(user_conversation_data, t.user)
    /\ UNCHANGED now

\* ------------------------------------------------------------------ inputs
BTCUSD == <<"B", "T", "C", "U", "S", "D">>
SCALP == <<"S", "C", "A", "L", "P">>
TradeCommands ==
    { <<XAUUSD, SWING, <<"1", "0", "0", "0", "0", "0">> >>,
      << <<"x", "a", "u", "u", "s", "d">>, <<"a", "m", "d">>,
         <<"5", "0", "0", "0", ",", "5", "0">> >>,
      <<XAUUSD, SCALP, <<"1", "0", "0", "0", "0", "0">> >>,
      <<BTCUSD, SWING, <<"1", "0", "0", "0", "0", "0">> >>,
      <<XAUUSD, SWING, <<"0">> >>,
      <<XAUUSD, SWING, <<"1", ",", "0", "0", "0", ".", "5">> >>,
      <<XAUUSD, SWING, <<"-", "5">> >>,
      <<XAUUSD, SWING>>,
      << <<"X", "A", "U", "/", "U", "S", "D">>, SWING, <<"1", "0", "0">> >> }

FileSizes == {0, MAX_IMAGE_SIZE_BYTES, MAX_IMAGE_SIZE_BYTES + 1}
Downloads == {"ok", "raise"}
ProviderResults == {"ok", "failure", "raise"}
\* Provider texts: a short analysis; a short plan and one that makes the
\* final message longer than one reply.
AnalysisTexts == {X(100)}
PlanTexts == {X(100), X(5000)}

Next ==
    \/ scheduled_cleanup
    \/ Tick
    \/ \E u \in Users, raises \in BOOLEAN : status_command(u, raises)
    \/ \E u \in Users : cancel_command_global(u)
    \/ \E u \in Users : cancel_command_fallback(u)
    \/ \E u \in Users : unhandled_update(u)
    \/ \E u \in Users : analyze_entry_point(u)
    \/ \E u \in Users, args \in TradeCommands : get_trade_parameters(u, args)
    \/ \E u \in Users, size \in FileSizes : receive_h4_image(u, size)
    \/ \E t \in tasks, d \in Downloads : receive_h4_image_resume(t, d)
    \/ \E u \in Users, size \in FileSizes : receive_h1_image(u, size)
    \/ \E t \in tasks, d \in Downloads, p \in BOOLEAN :
           receive_h1_image_resume(t, d, p)
    \/ \E u \in Users, size \in FileSizes : receive_m15_image(u, size)
    \/ \E t \in tasks, d \in Downloads, p \in BOOLEAN :
           receive_m15_image_resume(t, d, p)
    \/ \E t \in tasks, r \in ProviderResults, text \in AnalysisTexts,
          p \in BOOLEAN :
           vision_return(t, r, text, p)
    \/ \E t \in tasks, r \in ProviderResults, plan \in PlanTexts :
           planning_return(t, r, plan)

Spec == Init /\ [][Next]_vars

\* The application with its job queue: run_repeating fires scheduled_cleanup
\* again and again for as long as the application runs, and the clock
\* advances (here up to the bound of the model). Nothing makes a user send an
\* update or a provider answer.
SpecLive == Spec /\ WF_vars(Tick) /\ WF_vars(scheduled_cleanup)

\* ------------------------------------------- the final reply, on its own
\* The texts of the providers for the specification of the final reply:
\* analyses that put the planning-section marker before and after index
\* 3500 and across index 4000, one that ends with a newline and one that
\* quotes the marker; plans that keep the message under 4000 characters and
\* that do not. With 3344 and 3345 characters of analysis the marker is at
\* index 3499 and 3500, with 3409 and 3410 characters of plan after a short
\* analysis the message has 4000 and 4001 characters (module SWING, capital
\* 100,000.00).
ChunkerAnalysisTexts ==
    { X(100), X(100) \o NL, X(3300), X(3344), X(3345), X(3400), X(3820),
      X(100) \o PlanMarker \o X(3500) }
ChunkerPlanTexts == { X(100), X(600), X(3409), X(3410), X(4000), X(5000) }

\* A dispatch that waits for the planning provider: the session of user 1
\* is complete, the vision provider has answered.
ChunkerInit ==
    \E module \in SUPPORTED_MODULES, capital \in {100000 * 100, 500050},
       chatgpt_analysis_text \in ChunkerAnalysisTexts :
        LET u == 1
            image == MAX_IMAGE_SIZE_BYTES
            slots == IF NeedsM15(module) THEN <<"h4_image", "h1_image", "m15_image">>
                     ELSE <<"h4_image", "h1_image">>
            params == StoreParams([timestamp |-> 0],
                                  [asset |-> XAUUSD, module |-> module,
                                   capital |-> capital], 0)
            session == [k \in DOMAIN params \cup Range(slots) |->
                           IF k \in DOMAIN params THEN params[k] ELSE image]
            h == IF NeedsM15(module) THEN "receive_m15_image"
                 ELSE "receive_h1_image"
            t == Task(u, h, "planning", image,
                      [module |-> module, asset |-> XAUUSD, capital |-> capital,
                       chatgpt_analysis_text |-> chatgpt_analysis_text],
                      <<Reply("analysis_started", <<>>)>>,
                      <<[provider |-> "vision", images |-> <<{image}, {image}>>],
                        [provider |-> "planning", images |-> <<>>]>>)
        IN /\ user_conversation_data = DictSet(EmptyDict, u, session)
           /\ conv = [v \in Users |->
                         IF v # u THEN END
                         ELSE IF NeedsM15(module) THEN WAITING_M15_IMAGE
                         ELSE WAITING_H1_IMAGE]
           /\ now = 0
           /\ tasks = {t}
           /\ out = Outcome(u, h, t.replies, t.calls, NoException, {})

ChunkerNext ==
    \E t \in tasks, r \in ProviderResults, plan \in ChunkerPlanTexts :
        planning_return(t, r, plan)

SpecChunker == ChunkerInit /\ [][ChunkerNext]_vars

\* --------------------------------------- the last image, on its own
\* Image sizes that tell the three images of a session apart.
VisionImageSizes == {1, 2, MAX_IMAGE_SIZE_BYTES}

\* The handler of the last image of user 1's session waits in get_file: H1
\* for SWING with H4 stored, M15 for AMD with H4 and H1 stored.
VisionInit ==
    \E module \in SUPPORTED_MODULES, h4, h1, last \in VisionImageSizes :
        LET u == 1
            params == StoreParams([timestamp |-> 0],
                                  [asset |-> XAUUSD, module |-> module,
                                   capital |-> 100000 * 100], 0)
            stored == IF NeedsM15(module)
                      THEN DictSet(DictSet(params, "h4_image", h4), "h1_image", h1)
                      ELSE DictSet(params, "h4_image", h4)
            h == IF NeedsM15(module) THEN "receive_m15_image"
                 ELSE "receive_h1_image"
        IN /\ user_conversation_data = DictSet(EmptyDict, u, stored)
           /\ conv = [v \in Users |->
                         IF v # u THEN END
                         ELSE IF NeedsM15(module) THEN WAITING_M15_IMAGE
                         ELSE WAITING_H1_IMAGE]
           /\ now = 0
           /\ tasks = {Task(u, h, "get_file", last, <<>>, <<>>, <<>>)}
           /\ out = Outcome(u, h, <<>>, <<>>, NoException, {})

VisionNext ==
    \/ \E t \in tasks, d \in Downloads, p \in BOOLEAN :
           receive_h1_image_resume(t, d, p)
    \/ \E t \in tasks, d \in Downloads, p \in BOOLEAN :
           receive_m15_image_resume(t, d, p)
    \/ \E t \in tasks, r \in ProviderResults, text \in AnalysisTexts,
          p \in BOOLEAN :
           vision_return(t, r, text, p)
    \/ \E t \in tasks, r \in ProviderResults, plan \in PlanTexts :
           planning_return(t, r, plan)

SpecVision == VisionInit /\ [][VisionNext]_vars

\* ================================================================== claims
Kinds(o) == {o.replies[i].kind : i \in DOMAIN o.replies}
LastKind(o) == IF o.replies = <<>> THEN "" ELSE o.replies[Len(o.replies)].kind
Sessions == DOMAIN user_conversation_data
ParamKeys == {"asset", "module", "capital"}

\* The module of the analysis that the handler of user u has dispatched or
\* is dispatching in this step.
DispatchedModule(u) ==
    IF \E t \in tasks : t.user = u /\ t.pc \in {"vision", "planning"}
    THEN (CHOOSE t \in tasks : t.user = u).locals.module
    ELSE user_conversation_data[u]["module"]

\* C1. The conversation state of a user changes only along the table: the
\* entry command starts a fresh session in COLLECT_PARAMS; within a session
\* COLLECT_PARAMS -> FETCH_H4 with valid parameters stored, FETCH_H4 ->
\* FETCH_H1 with the H4 slot filled, FETCH_H1 -> FETCH_M15 with the H1 slot
\* filled and module AMD, and any state -> terminal by a cancel, an expired
\* session, or an analysis dispatched from FETCH_H1 (module without M15) or
\* from FETCH_M15 (module with M15). Nothing else changes it.
C1_Allowed(u) ==
    \/ conv'[u] = conv[u]
    \/ /\ conv'[u] = GET_TRADE_PARAMS
       /\ out'.handler = "analyze_entry_point" /\ out'.user = u
       /\ u \in Sessions'
       /\ user_conversation_data'[u] = [timestamp |-> now]
    \/ /\ conv[u] = GET_TRADE_PARAMS /\ conv'[u] = WAITING_H4_IMAGE
       /\ u \in Sessions'
       /\ ParamKeys \subseteq DOMAIN user_conversation_data'[u]
       /\ user_conversation_data'[u]["asset"] \in SUPPORTED_ASSETS
       /\ user_conversation_data'[u]["module"] \in SUPPORTED_MODULES
       /\ user_conversation_data'[u]["capital"] > 0
    \/ /\ conv[u] = WAITING_H4_IMAGE /\ conv'[u] = WAITING_H1_IMAGE
       /\ u \in Sessions'
       /\ "h4_image" \in DOMAIN user_conversation_data'[u]
    \/ /\ conv[u] = WAITING_H1_IMAGE /\ conv'[u] = WAITING_M15_IMAGE
       /\ u \in Sessions'
       /\ "h1_image" \in DOMAIN user_conversation_data'[u]
       /\ user_conversation_data'[u]["module"] = AMD
    \/ /\ conv[u] # END /\ conv'[u] = END
       /\ out'.user = u
       /\ \/ out'.handler = "cancel_command"
          \/ LastKind(out') = "session_expired" /\ u \notin Sessions
          \/ /\ "analysis_started" \in Kinds(out')
             /\ conv[u] = IF DispatchedModule(u) = AMD
                          THEN WAITING_M15_IMAGE
                          ELSE WAITING_H1_IMAGE
C1_TransitionTable == [][\A u \in Users : C1_Allowed(u)]_vars

\* A SWING analysis ran to its final reply while the other user waits for M15.
C1_Witness ==
    \E u, v \in Users :
        /\ out.user = u /\ LastKind(out) = "final" /\ conv[u] = END
        /\ out.handler = "receive_h1_image"
        /\ conv[v] = WAITING_M15_IMAGE

Handled(u) == out' # out /\ out'.user = u
\* A handler of user u returned or raised in this step.
Exited(u) == Handled(u) /\ (out'.returned # {} \/ out'.raised # NoException)
cancel_command(u) == cancel_command_global(u) \/ cancel_command_fallback(u)

ValidationErrors ==
    {"bad_format", "bad_capital", "bad_asset", "bad_module",
     "capital_not_positive", "too_big"}

\* C3 as stated: a handler that answers an input with a validation error
\* leaves the user's session in the store, unchanged, and the conversation
\* in its state.
C3_ValidationErrorKeepsSession ==
    [][\A u \in Users :
          (Exited(u) /\ LastKind(out') \in ValidationErrors /\ u \in Sessions)
          => /\ u \in Sessions'
             /\ user_conversation_data'[u] = user_conversation_data[u]
             /\ conv'[u] = conv[u]]_vars

Digits100000 == <<"1", "0", "0", "0", "0", "0">>
\* The valid commands among the inputs, with what the claim says is stored:
\* /trade XAUUSD SWING 100000 and /trade xauusd amd 5000,50.
C5_Expected ==
    { [args |-> <<XAUUSD, SWING, Digits100000>>,
       asset |-> XAUUSD, module |-> SWING, capital |-> 100000 * 100],
      [args |-> << <<"x", "a", "u", "u", "s", "d">>, <<"a", "m", "d">>,
                   <<"5", "0", "0", "0", ",", "5", "0">> >>,
       asset |-> XAUUSD, module |-> AMD, capital |-> 5000 * 100 + 50] }

\* C5. A valid parameter command handled in COLLECT_PARAMS for a user with a
\* session leaves in the session exactly the upper-cased asset and module,
\* the parsed capital and the refreshed timestamp, and moves to FETCH_H4.
C5_ValidParamsStored ==
    [][\A u \in Users, e \in C5_Expected :
          (get_trade_parameters(u, e.args) /\ u \in Sessions)
          => /\ u \in Sessions'
             /\ user_conversation_data'[u] =
                    [timestamp |-> now, asset |-> e.asset,
                     module |-> e.module, capital |-> e.capital]
             /\ conv[u] = GET_TRADE_PARAMS
             /\ conv'[u] = WAITING_H4_IMAGE]_vars

\* The lower-case command with a decimal comma was accepted.
C5_Witness ==
    \E u \in Sessions :
        /\ out.user = u /\ LastKind(out) = "params_ok"
        /\ conv[u] = WAITING_H4_IMAGE
        /\ user_conversation_data[u] =
               [timestamp |-> now, asset |-> XAUUSD, module |-> AMD,
                capital |-> 500050]

\* The invalid commands among the inputs, with the check that refuses each.
C6_Invalid ==
    { [args |-> <<XAUUSD, SWING>>, kind |-> "bad_format"],
      [args |-> <<XAUUSD, SWING, <<"-", "5">> >>, kind |-> "bad_format"],
      [args |-> << <<"X", "A", "U", "/", "U", "S", "D">>, SWING,
                   <<"1", "0", "0">> >>, kind |-> "bad_format"],
      [args |-> <<XAUUSD, SWING, <<"1", ",", "0", "0", "0", ".", "5">> >>,
       kind |-> "bad_capital"],
      [args |-> <<BTCUSD, SWING, Digits100000>>, kind |-> "bad_asset"],
      [args |-> <<XAUUSD, SCALP, Digits100000>>, kind |-> "bad_module"],
      [args |-> <<XAUUSD, SWING, <<"0">> >>, kind |-> "capital_not_positive"] }

\* C6. An invalid parameter command leaves the conversation in
\* COLLECT_PARAMS and the store as it was, with none of asset, module and
\* capital in the session; the reply is the error of the failed check, and
\* for an unsupported module it names the module.
C6_InvalidParamsRejected ==
    [][\A u \in Users, e \in C6_Invalid :
          get_trade_parameters(u, e.args)
          => /\ conv'[u] = GET_TRADE_PARAMS
             /\ UNCHANGED user_conversation_data
             /\ u \in Sessions' =>
                    DOMAIN user_conversation_data'[u] \cap ParamKeys = {}
             /\ out'.replies = <<Reply(e.kind, IF e.kind = "bad_module" THEN SCALP
                                               ELSE IF e.kind = "bad_asset" THEN BTCUSD
                                               ELSE <<>>)>>]_vars

\* /trade XAUUSD SCALP 100000 was refused by name, the session untouched.
C6_Witness ==
    \E u \in Sessions :
        /\ out.user = u /\ out.replies = <<Reply("bad_module", SCALP)>>
        /\ conv[u] = GET_TRADE_PARAMS
        /\ DOMAIN user_conversation_data[u] = {"timestamp"}

Slot(h) ==
    CASE h = "receive_h4_image" -> "h4_image"
      [] h = "receive_h1_image" -> "h1_image"
      [] h = "receive_m15_image" -> "m15_image"

\* C7. When an image handler finishes with an image whose size exceeds
\* MAX_IMAGE_SIZE_BYTES, in each of the three image states, the slot of that
\* state is not in the session and the conversation state is the same.
C7_OversizedImageRejected ==
    [][\A t \in tasks :
          (t.pc = "get_file" /\ t.file_size > MAX_IMAGE_SIZE_BYTES
           /\ t \notin tasks')
          => /\ conv'[t.user] = conv[t.user]
             /\ t.user \in Sessions' =>
                    Slot(t.handler) \notin DOMAIN user_conversation_data'[t.user]]_vars

\* An oversized H1 image was refused: the session holds H4 only.
C7_Witness ==
    \E u \in Sessions :
        /\ out.user = u /\ LastKind(out) = "too_big"
        /\ out.handler = "receive_h1_image"
        /\ conv[u] = WAITING_H1_IMAGE
        /\ "h4_image" \in DOMAIN user_conversation_data[u]
        /\ "h1_image" \notin DOMAIN user_conversation_data[u]

StateHandlers ==
    {"get_trade_parameters", "receive_h4_image", "receive_h1_image",
     "receive_m15_image"}

\* C8 as stated: a parameter command or an image that arrives for a user with
\* no session is answered with the session-expired reply, and the store is
\* left as it was.
C8_AbsentSessionRejected ==
    [][\A u \in Users :
          (Handled(u) /\ out'.handler \in StateHandlers /\ tasks = {}
           /\ u \notin Sessions)
          => /\ LastKind(out') = "session_expired"
             /\ out'.raised = NoException
             /\ UNCHANGED user_conversation_data]_vars

\* C9. A cancel in a non-terminal state leaves the user without session and
\* replies with the confirmation; and a session appears in the store only by
\* the entry command of that user.
C9_CancelDeletesSession ==
    [][\A u \in Users :
          /\ (cancel_command(u) /\ conv[u] # END)
             => /\ u \notin Sessions'
                /\ out'.replies = <<Reply("cancelled", <<>>)>>
                /\ out'.raised = NoException
          /\ (u \notin Sessions /\ u \in Sessions')
             => out'.handler = "analyze_entry_point" /\ out'.user = u]_vars

\* A cancel while the H1 image was awaited: the collected session is gone.
C9_Witness ==
    \E u \in Users :
        /\ out.user = u /\ out.handler = "cancel_command"
        /\ conv[u] = WAITING_H1_IMAGE
        /\ u \notin Sessions

\* C10. A cancel for a user with no session replies with the confirmation,
\* raises nothing and leaves the store as it was; after any cancel, another
\* cancel would leave the store as it is.
C10_CancelIdempotent ==
    [][\A u \in Users :
          /\ (cancel_command(u) /\ u \notin Sessions)
             => /\ out'.replies = <<Reply("cancelled", <<>>)>>
                /\ out'.raised = NoException
                /\ UNCHANGED user_conversation_data
          /\ cancel_command(u)
             => clear_user_data_on_exit(user_conversation_data', u)
                    = user_conversation_data']_vars

\* A cancel was answered for a user outside any conversation, with the other
\* user's session still in the store.
C10_Witness ==
    \E u, v \in Users :
        /\ out.user = u /\ out.handler = "cancel_command"
        /\ out.raised = NoException
        /\ conv[u] = END /\ u \notin Sessions
        /\ v \in Sessions

\* C11. One run of the clean-up job removes every session whose idle time
\* (now minus its timestamp) exceeds USER_DATA_CLEANUP_INTERVAL_SECONDS and
\* leaves every other session in the store with its record unchanged.
C11_SweepEvictsIdle ==
    [][scheduled_cleanup
       => \A u \in Sessions :
              IF now - user_conversation_data[u]["timestamp"]
                     > USER_DATA_CLEANUP_INTERVAL_SECONDS
              THEN u \notin Sessions'
              ELSE /\ u \in Sessions'
                   /\ user_conversation_data'[u] = user_conversation_data[u]]_vars

\* A session opened by the entry command and left alone is gone, with no
\* handler run for anybody since, while the clock is past the interval.
C11_Witness ==
    /\ out.handler = "analyze_entry_point"
    /\ out.user \notin Sessions
    /\ conv[out.user] = GET_TRADE_PARAMS
    /\ now > USER_DATA_CLEANUP_INTERVAL_SECONDS

Providers(o) == {o.calls[i].provider : i \in DOMAIN o.calls}

\* C12. When the vision provider returns a failure-marked result, the
\* handler ends with the vision error as its last reply and END, the planning
\* provider has not been called and is not called later (no task of the user
\* is left), and the session is out of the store.
C12_VisionFailureAborts ==
    [][\A t \in tasks, p \in BOOLEAN :
          (\E text \in AnalysisTexts : vision_return(t, "failure", text, p))
          => /\ LastKind(out') = "vision_error"
             /\ out'.returned = {END}
             /\ Providers(out') = {"vision"}
             /\ \A t2 \in tasks' : t2.user # t.user
             /\ t.user \notin Sessions']_vars

\* The vision error was sent after the one provider call; no session.
C12_Witness ==
    /\ LastKind(out) = "vision_error"
    /\ Len(out.calls) = 1
    /\ out.user \notin Sessions
    /\ conv[out.user] = END

\* C13. When the planning provider returns a failure-marked result, the
\* handler ends with the planning error as its last reply and END, no final
\* reply is sent, each provider has been called once and none is called
\* again, and the session is out of the store.
C13_PlanningFailureAborts ==
    [][\A t \in tasks :
          (\E plan \in PlanTexts : planning_return(t, "failure", plan))
          => /\ LastKind(out') = "planning_error"
             /\ "final" \notin Kinds(out')
             /\ out'.returned = {END}
             /\ Len(out'.calls) = 2
             /\ Providers(out') = {"vision", "planning"}
             /\ \A t2 \in tasks' : t2.user # t.user
             /\ t.user \notin Sessions']_vars

\* The planning error was sent after the two provider calls; no session.
C13_Witness ==
    /\ LastKind(out) = "planning_error"
    /\ Len(out.calls) = 2
    /\ out.user \notin Sessions
    /\ conv[out.user] = END

\* C14. When receive_h1_image stores an H1 image in a session that holds
\* H4: with module AMD the conversation is in FETCH_M15, nothing was sent to
\* the orchestrator and no provider was called; with module SWING the
\* orchestrator is invoked in the same handler run, and the conversation is
\* not in FETCH_M15 then nor while that analysis is in flight.
C14_ModuleDecidesM15 ==
    [][\A t \in tasks :
          /\ (/\ t.handler = "receive_h1_image" /\ t.pc = "get_file"
              /\ ImageIntake(t, "ok") = "stored"
              /\ \E p \in BOOLEAN : receive_h1_image_resume(t, "ok", p))
             => /\ {"h4_image", "module"} \subseteq
                       DOMAIN user_conversation_data[t.user]
                /\ user_conversation_data[t.user]["module"] \in {AMD, SWING}
                /\ user_conversation_data[t.user]["module"] = AMD
                   => /\ conv'[t.user] = WAITING_M15_IMAGE
                      /\ "analysis_started" \notin Kinds(out')
                      /\ out'.calls = <<>>
                      /\ \A t2 \in tasks' : t2.user # t.user
                      /\ {"h4_image", "h1_image"} \subseteq
                             DOMAIN user_conversation_data'[t.user]
                /\ user_conversation_data[t.user]["module"] = SWING
                   => /\ conv'[t.user] # WAITING_M15_IMAGE
                      /\ out'.replies[1] = Reply("analysis_started", <<>>)
          /\ (t.handler = "receive_h1_image" /\ t.pc \in {"vision", "planning"})
             => /\ t.locals.module = SWING
                /\ conv'[t.user] # WAITING_M15_IMAGE]_vars

\* One user with module AMD waits for M15 with H4 and H1 stored, while the
\* analysis of another user, with module SWING, is with the vision provider,
\* dispatched by receive_h1_image.
C14_Witness ==
    \E u, v \in Users :
        /\ conv[u] = WAITING_M15_IMAGE
        /\ u \in Sessions
        /\ {"h4_image", "h1_image"} \subseteq DOMAIN user_conversation_data[u]
        /\ user_conversation_data[u]["module"] = AMD
        /\ \E t \in tasks :
               /\ t.user = v /\ t.handler = "receive_h1_image"
               /\ t.pc = "vision" /\ t.locals.module = SWING
        /\ conv[v] = WAITING_H1_IMAGE

ImageSlots == {"h4_image", "h1_image", "m15_image"}

\* C15. In every reachable state, a session that holds an image slot holds
\* a supported asset, a supported module and a positive capital.
C15_ImagesImplyParams ==
    \A u \in Sessions :
        DOMAIN user_conversation_data[u] \cap ImageSlots # {}
        => /\ ParamKeys \subseteq DOMAIN user_conversation_data[u]
           /\ user_conversation_data[u]["asset"] \in SUPPORTED_ASSETS
           /\ user_conversation_data[u]["module"] \in SUPPORTED_MODULES
           /\ user_conversation_data[u]["capital"] > 0

\* A session with H4 and H1 stored, its last activity in the past, is in the
\* store while the other user has just issued the entry
\* command.
C15_Witness ==
    \E u, v \in Users :
        /\ u # v
        /\ u \in Sessions
        /\ {"h4_image", "h1_image"} \subseteq DOMAIN user_conversation_data[u]
        /\ user_conversation_data[u]["timestamp"] < now
        /\ out.user = v /\ out.handler = "analyze_entry_point"

\* The image slots the module mandates.
Mandated(module) ==
    IF module = AMD THEN {"h4_image", "h1_image", "m15_image"}
    ELSE {"h4_image", "h1_image"}

\* The step in which the image handler suspended as task t stores its image.
StoresImage(t) ==
    /\ t.pc = "get_file"
    /\ ImageIntake(t, "ok") = "stored"
    /\ \/ receive_h4_image_resume(t, "ok")
       \/ \E p \in BOOLEAN : receive_h1_image_resume(t, "ok", p)
       \/ \E p \in BOOLEAN : receive_m15_image_resume(t, "ok", p)

\* C16. Within one session a slot is written once: the handler that stores
\* an image finds its slot empty, and a stored image stays as it is while the
\* session lives. The vision provider is called only for a session that holds
\* every slot its module mandates, and with non-empty images.
C16_SlotsOnceDispatchComplete ==
    [][/\ \A t \in tasks :
             StoresImage(t)
             => Slot(t.handler) \notin DOMAIN user_conversation_data[t.user]
       /\ \A u \in Sessions \cap Sessions' :
             \A s \in ImageSlots \cap DOMAIN user_conversation_data[u] :
                 s \in DOMAIN user_conversation_data'[u]
                 => user_conversation_data'[u][s] = user_conversation_data[u][s]
       /\ \A t \in tasks' \ tasks :
             t.pc = "vision"
             => /\ t.user \in Sessions'
                /\ Mandated(t.locals.module)
                       \subseteq DOMAIN user_conversation_data'[t.user]
                /\ t.locals.module = user_conversation_data'[t.user]["module"]
                /\ t.calls = <<[provider |-> "vision",
                                images |-> t.calls[1].images]>>
                /\ \A i \in DOMAIN t.calls[1].images :
                       \E size \in t.calls[1].images[i] : size > 0]_vars

\* The analysis of an AMD session with its three slots written is with the
\* vision provider.
C16_Witness ==
    \E t \in tasks :
        /\ t.pc = "vision" /\ t.locals.module = AMD
        /\ t.user \in Sessions
        /\ ImageSlots \subseteq DOMAIN user_conversation_data[t.user]

\* The texts of the final message parts in o, in send order.
FinalParts(o) ==
    LET rs == SelectSeq(o.replies, LAMBDA r : r.kind = "final")
    IN [i \in DOMAIN rs |-> rs[i].arg]

\* C17 as stated: every part emitted for the final reply is at most 4000
\* characters long.
C17_PartsWithinLimit ==
    \A i \in DOMAIN FinalParts(out) :
        TextLen(FinalParts(out)[i]) <= MessageLimit

RECURSIVE ConcatAll(_)
ConcatAll(parts) ==
    IF parts = <<>> THEN <<>> ELSE Head(parts) \o ConcatAll(Tail(parts))

\* The parts in send order, the continuation note taken out, as one text.
Rebuilt(o) ==
    Norm(SelectSeq(ConcatAll(FinalParts(o)), LAMBDA k : k.c # "suite"))

\* The final message of the dispatch suspended as task t, for a plan.
FinalMessageOf(t, plan) ==
    FinalMessage(t.locals.module, t.locals.capital, t.locals.asset,
                 t.locals.chatgpt_analysis_text, plan)

\* C18 as stated: the parts of the final reply, in send order and without
\* the continuation note, concatenate to the assembled text.
C18_PartsReproduceText ==
    [][\A t \in tasks, plan \in ChunkerPlanTexts :
          planning_return(t, "ok", plan)
          => Rebuilt(out') = FinalMessageOf(t, plan)]_vars

\* The whitespace that ends the text before index k replaced by the two
\* newlines that precede the continuation note.
TrimmedAt(text, k) == Norm(RStrip(Take(text, k)) \o NL \o NL \o Drop(text, k))

\* C18, amended. The parts without the continuation note concatenate to the
\* assembled text when it is sent whole or cut at every 4000 characters; when
\* it is cut at the planning-section marker they concatenate to the text with
\* the whitespace before the marker replaced by two newlines.
C18_PartsReproduceTextUpToTrim ==
    [][\A t \in tasks, plan \in ChunkerPlanTexts :
          planning_return(t, "ok", plan)
          => LET text == FinalMessageOf(t, plan)
                 split_point == Find(text)
             IN Rebuilt(out') =
                    IF /\ TextLen(text) > MessageLimit
                       /\ split_point # -1 /\ split_point < SplitPointLimit
                    THEN TrimmedAt(text, split_point)
                    ELSE text]_vars

\* A final reply cut at the marker: two parts, the first ends with the
\* continuation note, the second starts with the marker.
C18_Witness ==
    LET parts == FinalParts(out)
    IN /\ Len(parts) = 2
       /\ parts[1][Len(parts[1])].c = "suite"
       /\ Head(parts[2]) = PlanMarker[1]
       /\ conv[out.user] = END

\* C20 as stated: an image handler whose session was removed while it was
\* suspended in get_file, after its session-presence check, ends without the
\* failure of a write to the missing record, and leaves the store as it is.
C20_EvictionDuringIntakeTolerated ==
    [][\A t \in tasks :
          (t.pc = "get_file" /\ t.user \notin Sessions /\ t \notin tasks')
          => /\ out'.raised # "KeyError"
             /\ UNCHANGED user_conversation_data]_vars

InAnalysis(t) == t.pc \in {"vision", "planning"}

\* C21. While an analysis is with a provider, a session of its user that
\* has been evicted does not come back: the user has no session in any later
\* step of the dispatch, nor when it finishes.
C21_NoResurrection ==
    [][\A t \in tasks :
          (InAnalysis(t) /\ t.user \notin Sessions) => t.user \notin Sessions']_vars

\* The session was evicted while the analysis waits for the planning
\* provider.
C21_Witness ==
    \E t \in tasks :
        /\ t.pc = "planning"
        /\ t.user \notin Sessions
        /\ now > USER_DATA_CLEANUP_INTERVAL_SECONDS

\* C22 as stated: when the orchestrator ends with an exception, the session
\* is out of the store and a message was sent to the user after the replies
\* that preceded the exception.
C22_ExceptionReported ==
    [][\A t \in tasks :
          (InAnalysis(t) /\ t \notin tasks' /\ out'.raised # NoException)
          => /\ t.user \notin Sessions'
             /\ Len(out'.replies) > Len(t.replies)]_vars

\* C23. The entry command, in whatever state the conversation and the
\* store are, leaves the conversation in COLLECT_PARAMS and the user's
\* session with the current timestamp and nothing else.
C23_EntryRestarts ==
    [][\A u \in Users :
          analyze_entry_point(u)
          => /\ conv'[u] = GET_TRADE_PARAMS
             /\ u \in Sessions'
             /\ user_conversation_data'[u] = [timestamp |-> now]
             /\ \A v \in Users \ {u} :
                    /\ conv'[v] = conv[v]
                    /\ (v \in Sessions') = (v \in Sessions)]_vars

\* The entry command was handled after the clock had advanced while the
\* other user's session holds parameters and images.
C23_Witness ==
    \E u, v \in Users :
        /\ out.user = u /\ out.handler = "analyze_entry_point"
        /\ conv[u] = GET_TRADE_PARAMS
        /\ u \in Sessions
        /\ user_conversation_data[u] = [timestamp |-> now]
        /\ now > 0
        /\ v \in Sessions
        /\ "h4_image" \in DOMAIN user_conversation_data[v]

\* C24. The timestamp of a user's session does not decrease in any step that
\* leaves a session of the user in the store, and is never ahead of the
\* clock.
C24_TimestampMonotone ==
    [][\A u \in Sessions \cap Sessions' :
          /\ user_conversation_data'[u]["timestamp"]
                 >= user_conversation_data[u]["timestamp"]
          /\ user_conversation_data'[u]["timestamp"] <= now]_vars

\* A session whose images were stored after the clock had advanced past the
\* time the entry command created it.
C24_Witness ==
    \E u \in Sessions :
        /\ {"h4_image", "h1_image"} \subseteq DOMAIN user_conversation_data[u]
        /\ user_conversation_data[u]["timestamp"] = now
        /\ now = MaxTicks * TickSeconds
        /\ out.user = u /\ LastKind(out) = "h1_ok_send_m15"

\* The providers called, in call order.
ProviderSeq(calls) == [i \in DOMAIN calls |-> calls[i].provider]
CallOrders == {<<>>, <<"vision">>, <<"vision", "planning">>}

\* C25. In every dispatch the calls made are a prefix of: vision, then
\* planning, each once. A vision result with the failure marker, or an
\* exception, is followed by no planning call; the final reply is sent only
\* by the step that takes a planning result without the failure marker, after
\* both calls.
C25_ProviderOrder ==
    [][/\ ProviderSeq(out'.calls) \in CallOrders
       /\ \A t \in tasks' :
             /\ ProviderSeq(t.calls) \in CallOrders
             /\ Len(t.calls) = (CASE t.pc = "get_file" -> 0
                                   [] t.pc = "vision" -> 1
                                   [] t.pc = "planning" -> 2)
       /\ \A t \in tasks, r \in {"failure", "raise"}, p \in BOOLEAN :
             (\E text \in AnalysisTexts : vision_return(t, r, text, p))
             => /\ ProviderSeq(out'.calls) = <<"vision">>
                /\ t \notin tasks'
                /\ "final" \notin Kinds(out')
       /\ \A t \in tasks, r \in {"failure", "raise"} :
             (\E plan \in PlanTexts : planning_return(t, r, plan))
             => "final" \notin Kinds(out')
       /\ ("final" \in Kinds(out') /\ "final" \notin Kinds(out))
          => /\ ProviderSeq(out'.calls) = <<"vision", "planning">>
             /\ \E t \in tasks, plan \in PlanTexts :
                    planning_return(t, "ok", plan)]_vars

\* The final reply was sent after the vision call and the planning call.
C25_Witness ==
    /\ LastKind(out) = "final"
    /\ ProviderSeq(out.calls) = <<"vision", "planning">>
    /\ out.user \notin Sessions
    /\ conv[out.user] = END

\* C26. The vision provider is called with the list H4, H1 of the session
\* when the module is SWING and H4, M15 when it is AMD; the AMD session holds
\* an H1 image, which is not in the list.
C26_ImageList ==
    [][\A t \in tasks' \ tasks :
          t.pc = "vision"
          => LET session == user_conversation_data'[t.user]
             IN /\ t.calls[1].provider = "vision"
                /\ session["module"] = SWING
                   => t.calls[1].images =
                          <<{session["h4_image"]}, {session["h1_image"]}>>
                /\ session["module"] = AMD
                   => /\ t.calls[1].images =
                             <<{session["h4_image"]}, {session["m15_image"]}>>
                      /\ "h1_image" \in DOMAIN session]_vars

\* An AMD analysis is with the vision provider; the H1 image of the session
\* differs from both images of the list.
C26_Witness ==
    \E t \in tasks :
        /\ t.pc = "vision" /\ t.locals.module = AMD
        /\ t.user \in Sessions
        /\ LET session == user_conversation_data[t.user]
           IN /\ t.calls[1].images =
                     <<{session["h4_image"]}, {session["m15_image"]}>>
              /\ session["h1_image"] \notin
                     {session["h4_image"], session["m15_image"]}

\* C27. An assembled text of at most 4000 characters is sent as one
\* message. A longer one with the marker at an index below 3500 is sent as
\* two messages, the text before the marker (trimmed, with the continuation
\* note) and the text from the marker on; any other longer one is sent as its
\* consecutive slices of 4000 characters, in order.
C27_SplitRule ==
    [][\A t \in tasks, plan \in ChunkerPlanTexts :
          planning_return(t, "ok", plan)
          => LET text == FinalMessageOf(t, plan)
                 parts == FinalParts(out')
                 split_point == Find(text)
             IN IF TextLen(text) <= MessageLimit
                THEN parts = <<text>>
                ELSE IF split_point # -1 /\ split_point < SplitPointLimit
                THEN /\ Len(parts) = 2
                     /\ parts[1] = Norm(Strip(Take(text, split_point))
                                        \o Continuation)
                     /\ parts[2] = Strip(Drop(text, split_point))
                     /\ Head(parts[2]) = PlanMarker[1]
                ELSE /\ Len(parts) = (TextLen(text) + MessageLimit - 1)
                                         \div MessageLimit
                     /\ \A i \in DOMAIN parts :
                            parts[i] = Take(Drop(text, MessageLimit * (i - 1)),
                                            MessageLimit)]_vars

\* A message of more than 4000 characters with the marker at index 3500 was
\* sent as fixed slices: the first part has 4000 characters and holds the
\* marker.
C27_Witness ==
    LET parts == FinalParts(out)
    IN /\ Len(parts) = 2
       /\ TextLen(parts[1]) = MessageLimit
       /\ Find(parts[1]) = SplitPointLimit
       /\ conv[out.user] = END

\* The handler of user u has taken an input in this step: the parameter
\* command with valid parameters, or an image that it stored.
Accepted(u) ==
    /\ Handled(u)
    /\ \/ LastKind(out') \in {"params_ok", "h4_ok", "h1_ok_send_m15"}
       \/ /\ \E t \in tasks : t.user = u /\ t.pc = "get_file"
          /\ \E t \in tasks' : t.user = u /\ t.pc = "vision"
\* The input of user u was turned down in this step: invalid parameters, an
\* oversized image, or an update that the state has no handler for.
Rejected(u) ==
    /\ Handled(u)
    /\ \/ LastKind(out') \in ValidationErrors
       \/ out'.handler = "none"

\* C28 as stated: every accepted input leaves the session with the time of
\* the step as its timestamp, and a rejected input leaves the session in the
\* store with every field, the timestamp included, as it was.
C28_AcceptedRefreshesRejectedKeeps ==
    [][\A u \in Sessions :
          /\ Accepted(u) => /\ u \in Sessions'
                            /\ user_conversation_data'[u]["timestamp"] = now
          /\ Rejected(u) => /\ u \in Sessions'
                            /\ user_conversation_data'[u]
                                   = user_conversation_data[u]]_vars

C31_OnlyEntryInserts ==
    [][\A u \in Users :
          (u \notin Sessions /\ u \in Sessions')
          => /\ analyze_entry_point(u)
             /\ user_conversation_data'[u] = [timestamp |-> now]]_vars

\* A valid parameter command was handled for a user whose session had been
\* swept: it raised, and the user still has no session.
C31_Witness ==
    /\ out.handler = "get_trade_parameters"
    /\ out.raised = "KeyError"
    /\ out.user \notin Sessions
    /\ conv[out.user] = GET_TRADE_PARAMS

\* C32. In every step, the session of a user other than the one whose
\* handler acts is as it was, one way or the other, unless the step is a
\* sweep, of the clean-up job or of a status query, and the sweep removes it.
C32_OtherUsersUntouched ==
    [][\A v \in Users :
          (/\ v # out'.user
           /\ \/ (v \in Sessions) # (v \in Sessions')
              \/ /\ v \in Sessions \cap Sessions'
                 /\ user_conversation_data'[v] # user_conversation_data[v])
          => /\ \/ scheduled_cleanup
                \/ \E u \in Users, raises \in BOOLEAN : status_command(u, raises)
             /\ v \in Sessions
             /\ v \notin Sessions']_vars

\* The analysis of one user has sent its final reply and the exit clean-up
\* has deleted that user's session, while the other user's session, with
\* parameters and an image, is in the store.
C32_Witness ==
    \E v \in Sessions :
        /\ v # out.user
        /\ out.user \notin Sessions
        /\ LastKind(out) = "final"
        /\ ParamKeys \cup {"h4_image"} \subseteq DOMAIN user_conversation_data[v]

\* C33. A status query leaves the store as a run of the clean-up job at the
\* same time would, whoever asks, and the count in its reply is the number of
\* sessions in the store after that.
C33_StatusSweepsThenCounts ==
    [][\A u \in Users, raises \in BOOLEAN :
          status_command(u, raises)
          => /\ user_conversation_data'
                    = cleanup_old_user_data(user_conversation_data, now)
             /\ \A v \in Sessions \ Sessions' :
                    now - user_conversation_data[v]["timestamp"]
                        > USER_DATA_CLEANUP_INTERVAL_SECONDS
             /\ ~raises => out'.replies
                              = <<Reply("status", <<Cardinality(Sessions')>>)>>]_vars

\* A status query of a user who has no conversation was answered with a
\* count of zero, and the other user, who still awaits an image, has no
\* session.
C33_Witness ==
    \E v \in Users \ Sessions :
        /\ out.handler = "status_command"
        /\ out.user # v
        /\ out.replies = <<Reply("status", <<0>>)>>
        /\ conv[out.user] = END
        /\ conv[v] = WAITING_H4_IMAGE

\* Timestamps that leave the clock of the model room to pass the interval.
EarlyTimes ==
    {k * TickSeconds : k \in {j \in 0..MaxTicks :
        (MaxTicks - j) * TickSeconds > USER_DATA_CLEANUP_INTERVAL_SECONDS}}

\* C34. With the clean-up job running and the clock advancing, a session
\* with a given timestamp is eventually out of the store or has had its
\* timestamp changed by a further accepted input (or been replaced by the
\* entry command), in whatever state of the conversation it is and whether
\* or not a handler of its user is suspended. Checked for the timestamps that
\* the bounded clock can outrun.
C34_IdleSessionEventuallyRemoved ==
    \A u \in Users, ts \in EarlyTimes :
        (u \in Sessions /\ user_conversation_data[u]["timestamp"] = ts)
        ~> (u \notin Sessions \/ user_conversation_data[u]["timestamp"] # ts)

\* A session abandoned while it waited for the M15 image has been swept:
\* the last handler that ran stored the H1 image of its user, who has no
\* session any more, at the end of the clock.
C34_Witness ==
    /\ LastKind(out) = "h1_ok_send_m15"
    /\ conv[out.user] = WAITING_M15_IMAGE
    /\ out.user \notin Sessions
    /\ now = MaxTicks * TickSeconds

====
